---- MODULE Spec2Model ----
(***************************************************************************)
(* Model of internal/executor/executor.go of rcon-cli: session resolution  *)
(* (NewSession), the CLI action, the protocol dispatcher (Execute,         *)
(* CheckCredentials) and the interactive engine (Interactive).             *)
(*                                                                         *)
(* Go strings are sequences of one-character strings, so that fmt.Fscanln, *)
(* bufio.Scanner and strings.TrimSpace are computed and not assumed.       *)
(* The input stream is a sequence of newline-terminated lines followed by  *)
(* end-of-stream; the next line is chosen when it is read.                 *)
(***************************************************************************)
EXTENDS Integers, Sequences, FiniteSets, TLC

VARIABLES
  pc,       \* position of the single thread of control
  flags,    \* the parsed command line (c.String(...))
  ses,      \* the config.Session value behind the pointer
  command,  \* the local `command` of app.Action, Interactive and Execute
  loaded,   \* what config.NewConfig returned, if it was called (<<>> or <<load>>)
  attempt,  \* Interactive's local `attempt`
  pending,  \* the unread remainder of a line fmt.Fscanln left in r (<<>> or <<rest>>)
  eof,      \* the input stream r has reported end-of-stream
  nRead,    \* lines taken from the input stream so far
  got,      \* what the latest step got from r: "none", "line", "eof" or "toolong"
  calls,    \* calls the latest step made to the collaborators, in order
  out,      \* writes the latest step made to w, in order
  nCalls,   \* calls made so far, per function called
  nOut,     \* writes made to w so far, per kind of text
  checked,  \* the latest CheckCredentials of Interactive that succeeded: <<>> or
            \* <<[ses |-> the session then, call |-> the call made]>>
  ret       \* what app.Action returned ("running" until it returns)

vars == <<pc, flags, ses, command, loaded, attempt, pending, eof, nRead, got,
         calls, out, nCalls, nOut, checked, ret>>

\* ---------------------------------------------------------------- bounds

MaxLines == 3

MaxChecks == 2

\* ------------------------------------------------------------- constants

Empty == <<>>

CommandQuit == <<":", "q">>

AttemptsLimit == 3

ProtocolRCON == <<"r", "c", "o", "n">>

ProtocolTELNET == <<"t", "e", "l", "n", "e", "t">>

ProtocolWebRCON == <<"w", "e", "b">>

DefaultConfigEnv == "default"

\* ------------------------------------------------------- input alphabets

HostA == <<"h">>

PassA == <<"p">>

LogA == <<"l">>

BadType == <<"x">>

Cmd == <<"s">>

HostB == <<"H">>

PassB == <<"P">>

LogB == <<"L">>

\* Lines a user may type (without the terminating newline).
Lines ==
  { Empty, ProtocolWebRCON, ProtocolTELNET, BadType, CommandQuit,
    <<"x", " ", "y">> }

\* What a protocol client may return as the result text.
Results == { Empty, <<"O", "K">>, <<" ", " ", "O", "K", "\n">> }

FlagSets ==
  [ a : {Empty, HostA}, p : {Empty, PassA},
    t : {Empty, ProtocolRCON, ProtocolWebRCON, ProtocolTELNET, BadType},
    l : {Empty, LogA}, c : {Empty, Cmd}, e : {"", "prod"} ]

ZeroSession == [Address |-> Empty, Password |-> Empty, Type |-> Empty, Log |-> Empty]

\* Configuration files config.NewConfig may load: environment name -> Session.
Configs ==
  { [ default |-> [Address |-> HostB, Password |-> PassB, Type |-> ProtocolWebRCON, Log |-> Empty],
      prod    |-> [Address |-> Empty, Password |-> Empty, Type |-> Empty, Log |-> LogB] ] }

\* What config.NewConfig may return: a loaded file, or an error.
ConfigLoads ==
  {[err |-> FALSE, cfg |-> c] : c \in Configs}
    \cup {[err |-> TRUE, cfg |-> [e \in {} |-> ZeroSession]]}

\* Sessions and commands a caller may hand to Execute.
SessionSet ==
  [ Address : {Empty, HostA}, Password : {Empty, PassA},
    Type : {Empty, ProtocolRCON, ProtocolWebRCON, ProtocolTELNET, BadType},
    Log : {Empty, LogA} ]

Commands == {Empty, Cmd, CommandQuit}

\* (*cfg)[e]: a missing key of a Go map yields the zero value.
EnvBlock(cfg, e) == IF e \in DOMAIN cfg THEN cfg[e] ELSE ZeroSession

\* ------------------------------------------------------------ collaborators

\* A call of a collaborator: its arguments, the result text it returned (or,
\* for logger.Write, was handed) and whether it returned an error.
Call(pkg, fn, addr, pwd, arg, res, err) ==
  [pkg |-> pkg, fn |-> fn, addr |-> addr, pwd |-> pwd, arg |-> arg, res |-> res,
   err |-> err]

Wrote(kind, text) == [kind |-> kind, text |-> text]

\* ---------------------------------------------------------------- strings

IsSpace(c) == c \in {" ", "\t", "\n", "\r"}

RECURSIVE TrimLeft(_)
TrimLeft(s) == IF s # <<>> /\ IsSpace(Head(s)) THEN TrimLeft(Tail(s)) ELSE s

RECURSIVE TrimRight(_)
TrimRight(s) ==
  IF s # <<>> /\ IsSpace(s[Len(s)]) THEN TrimRight(SubSeq(s, 1, Len(s) - 1)) ELSE s

TrimSpace(s) == TrimRight(TrimLeft(s))

RECURSIVE Token(_)
Token(s) == IF s = <<>> \/ IsSpace(Head(s)) THEN <<>> ELSE <<Head(s)>> \o Token(Tail(s))

\* fmt.Fscanln(r, &v) on one line of input (or end-of-stream) with v = old:
\* leading blanks are skipped; a line with no token, or end-of-stream, leaves
\* v unchanged; else v is the first token, and if a second token follows, its
\* first character is consumed and the rest of the line stays in the stream.
Fscanln(rd, old) ==
  IF rd.eof THEN [val |-> old, rest |-> <<>>]
  ELSE LET body == TrimLeft(rd.text) IN
       IF body = <<>> THEN [val |-> old, rest |-> <<>>]
       ELSE LET tok  == Token(body)
                tail == TrimLeft(SubSeq(body, Len(tok) + 1, Len(body)))
            IN [val |-> tok, rest |-> IF tail = <<>> THEN <<>> ELSE <<Tail(tail)>>]

\* ------------------------------------------------------------ input stream

\* A last line without its newline reads like a terminated one, so every line
\* is taken as terminated.
\* The outcomes of asking r for its next line: what Fscanln left behind comes
\* first; after end-of-stream only end-of-stream; else any line, or the end.
Reads ==
  IF pending # <<>> THEN {[eof |-> FALSE, text |-> pending[1], fresh |-> FALSE]}
  ELSE IF eof \/ nRead >= MaxLines THEN {[eof |-> TRUE, text |-> Empty, fresh |-> FALSE]}
  ELSE {[eof |-> FALSE, text |-> l, fresh |-> TRUE] : l \in Lines}
       \cup {[eof |-> TRUE, text |-> Empty, fresh |-> FALSE]}

Consume(rd, rest) ==
  /\ pending' = rest
  /\ eof' = (eof \/ rd.eof)
  /\ nRead' = nRead + (IF rd.fresh THEN 1 ELSE 0)
  /\ got' = IF rd.eof THEN "eof" ELSE "line"

\* The step does not touch r.
NoRead == got' = "none" /\ UNCHANGED <<pending, eof, nRead>>

\* ------------------------------------------------------------- NewSession

\* NewSession without the early return of lines 79-81.
NewSessionNoShortcut(f, ld) ==
  LET s0 == [Address |-> f.a, Password |-> f.p, Type |-> f.t, Log |-> f.l] IN
  IF ld.err
  THEN [ses |-> s0, err |-> "ErrConfig", loaded |-> TRUE]
  ELSE LET e   == IF f.e = "" THEN DefaultConfigEnv ELSE f.e
           blk == EnvBlock(ld.cfg, e)
       IN [ses |-> [Address  |-> IF s0.Address = Empty THEN blk.Address ELSE s0.Address,
                    Password |-> IF s0.Password = Empty THEN blk.Password ELSE s0.Password,
                    Type     |-> IF s0.Type = Empty THEN blk.Type ELSE s0.Type,
                    Log      |-> IF s0.Log = Empty THEN blk.Log ELSE s0.Log],
           err |-> "nil", loaded |-> TRUE]

\* NewSession that reads the default environment whatever -e says.
NewSessionIgnoresEnv(f, ld) ==
  LET s0 == [Address |-> f.a, Password |-> f.p, Type |-> f.t, Log |-> f.l] IN
  IF s0.Address # Empty /\ s0.Password # Empty
  THEN [ses |-> s0, err |-> "nil", loaded |-> FALSE]
  ELSE IF ld.err
  THEN [ses |-> s0, err |-> "ErrConfig", loaded |-> TRUE]
  ELSE LET blk == EnvBlock(ld.cfg, DefaultConfigEnv)
       IN [ses |-> [Address  |-> IF s0.Address = Empty THEN blk.Address ELSE s0.Address,
                    Password |-> IF s0.Password = Empty THEN blk.Password ELSE s0.Password,
                    Type     |-> IF s0.Type = Empty THEN blk.Type ELSE s0.Type,
                    Log      |-> IF s0.Log = Empty THEN blk.Log ELSE s0.Log],
           err |-> "nil", loaded |-> TRUE]

\* NewSession that returns no session with the load error.
NewSessionDropsOnError(f, ld) ==
  LET s0 == [Address |-> f.a, Password |-> f.p, Type |-> f.t, Log |-> f.l] IN
  IF s0.Address # Empty /\ s0.Password # Empty
  THEN [ses |-> s0, err |-> "nil", loaded |-> FALSE]
  ELSE IF ld.err
  THEN [ses |-> ZeroSession, err |-> "ErrConfig", loaded |-> TRUE]
  ELSE LET e   == IF f.e = "" THEN DefaultConfigEnv ELSE f.e
           blk == EnvBlock(ld.cfg, e)
       IN [ses |-> [Address  |-> IF s0.Address = Empty THEN blk.Address ELSE s0.Address,
                    Password |-> IF s0.Password = Empty THEN blk.Password ELSE s0.Password,
                    Type     |-> IF s0.Type = Empty THEN blk.Type ELSE s0.Type,
                    Log      |-> IF s0.Log = Empty THEN blk.Log ELSE s0.Log],
           err |-> "nil", loaded |-> TRUE]

\* executor.NewSession: f are the flag values, ld what config.NewConfig
\* returns if it is called (loaded tells whether it was).
NewSession(f, ld) ==
  LET s0 == [Address |-> f.a, Password |-> f.p, Type |-> f.t, Log |-> f.l] IN
  IF s0.Address # Empty /\ s0.Password # Empty
  THEN [ses |-> s0, err |-> "nil", loaded |-> FALSE]
  ELSE IF ld.err
  THEN [ses |-> s0, err |-> "ErrConfig", loaded |-> TRUE]
  ELSE LET e   == IF f.e = "" THEN DefaultConfigEnv ELSE f.e
           blk == EnvBlock(ld.cfg, e)
       IN [ses |-> [Address  |-> IF s0.Address = Empty THEN blk.Address ELSE s0.Address,
                    Password |-> IF s0.Password = Empty THEN blk.Password ELSE s0.Password,
                    Type     |-> IF s0.Type = Empty THEN blk.Type ELSE s0.Type,
                    Log      |-> IF s0.Log = Empty THEN blk.Log ELSE s0.Log],
           err |-> "nil", loaded |-> TRUE]

\* ------------------------------------------------------------- dispatcher

\* The switch of Execute with the telnet and web cases exchanged.
ExecuteClientSwapped(type) ==
  IF type = ProtocolTELNET THEN "websocket"
  ELSE IF type = ProtocolWebRCON THEN "telnet"
  ELSE "rcon"

\* The switch of Execute: which protocol client runs the command.
ExecuteClient(type) ==
  IF type = ProtocolTELNET THEN "telnet"
  ELSE IF type = ProtocolWebRCON THEN "websocket"
  ELSE "rcon"

\* logger.Write may fail only when it has a file to write to.
LogErrs(path) == IF path = Empty THEN {FALSE} ELSE BOOLEAN

\* Execute without the check of lines 186-188.
ExecuteUnguarded(s, cmd, result, cerr, lerr) ==
  LET call    == Call(ExecuteClient(s.Type), "Execute", s.Address, s.Password, cmd, result, cerr)
      trimmed == IF result # Empty THEN TrimSpace(result) ELSE result
      written == IF result # Empty THEN <<Wrote("Result", trimmed)>> ELSE <<>>
      logcall == Call("logger", "Write", s.Address, s.Log, cmd, trimmed, lerr)
  IN IF cerr
     THEN [err |-> "ErrClient", calls |-> <<call>>, out |-> written]
     ELSE [err |-> IF lerr THEN "ErrWriteLog" ELSE "nil",
           calls |-> <<call, logcall>>, out |-> written]

\* Execute with the test of the client's error before the result is written.
ExecuteDropsResultOnError(s, cmd, result, cerr, lerr) ==
  IF cmd = Empty
  THEN [err |-> "ErrCommandEmpty", calls |-> <<>>, out |-> <<>>]
  ELSE LET call    == Call(ExecuteClient(s.Type), "Execute", s.Address, s.Password, cmd, result, cerr)
           trimmed == IF result # Empty THEN TrimSpace(result) ELSE result
           written == IF result # Empty THEN <<Wrote("Result", trimmed)>> ELSE <<>>
           logcall == Call("logger", "Write", s.Address, s.Log, cmd, trimmed, lerr)
       IN IF cerr
          THEN [err |-> "ErrClient", calls |-> <<call>>, out |-> <<>>]
          ELSE [err |-> IF lerr THEN "ErrWriteLog" ELSE "nil",
                calls |-> <<call, logcall>>, out |-> written]

\* Execute that drops the error of logger.Write.
ExecuteIgnoresLogError(s, cmd, result, cerr, lerr) ==
  IF cmd = Empty
  THEN [err |-> "ErrCommandEmpty", calls |-> <<>>, out |-> <<>>]
  ELSE LET call    == Call(ExecuteClient(s.Type), "Execute", s.Address, s.Password, cmd, result, cerr)
           trimmed == IF result # Empty THEN TrimSpace(result) ELSE result
           written == IF result # Empty THEN <<Wrote("Result", trimmed)>> ELSE <<>>
           logcall == Call("logger", "Write", s.Address, s.Log, cmd, trimmed, lerr)
       IN IF cerr
          THEN [err |-> "ErrClient", calls |-> <<call>>, out |-> written]
          ELSE [err |-> "nil", calls |-> <<call, logcall>>, out |-> written]

\* Execute(w, ses, command) with command = cmd: result and cerr are what the protocol client
\* returns, lerr whether logger.Write fails. Yields the returned error, the
\* collaborator calls made and the writes to w.
Execute(s, cmd, result, cerr, lerr) ==
  IF cmd = Empty
  THEN [err |-> "ErrCommandEmpty", calls |-> <<>>, out |-> <<>>]
  ELSE LET call    == Call(ExecuteClient(s.Type), "Execute", s.Address, s.Password, cmd, result, cerr)
           trimmed == IF result # Empty THEN TrimSpace(result) ELSE result
           written == IF result # Empty THEN <<Wrote("Result", trimmed)>> ELSE <<>>
           logcall == Call("logger", "Write", s.Address, s.Log, cmd, trimmed, lerr)
       IN IF cerr
          THEN [err |-> "ErrClient", calls |-> <<call>>, out |-> written]
          ELSE [err |-> IF lerr THEN "ErrWriteLog" ELSE "nil",
                calls |-> <<call, logcall>>, out |-> written]

\* CheckCredentials that asks the binary-RCON client whatever the type is.
CheckCredentialsAlwaysRcon(s, err) ==
  Call("rcon", "CheckCredentials", s.Address, s.Password, Empty, Empty, err)

\* CheckCredentials(ses): the credential check call it makes; err is whether
\* the client returns an error.
CheckCredentials(s, err) ==
  Call(IF s.Type = ProtocolWebRCON THEN "websocket" ELSE "rcon",
       "CheckCredentials", s.Address, s.Password, Empty, Empty, err)

CallFns == {"NewConfig", "Execute", "CheckCredentials", "Interactive", "Write"}

OutKinds == {"PromptAddress", "PromptPassword", "PromptType", "Unsupported", "Banner"}

\* The step calls the collaborators as in cs and writes ws to w.
Does(cs, ws) ==
  /\ calls' = cs
  /\ out' = ws
  /\ nCalls' = [f \in CallFns |-> nCalls[f] + Cardinality({i \in DOMAIN cs : cs[i].fn = f})]
  /\ nOut' = [k \in OutKinds |-> nOut[k] + Cardinality({i \in DOMAIN ws : ws[i].kind = k})]

\* ------------------------------------------------------------------ Init

Init ==
  /\ pc = "Action"
  /\ flags \in FlagSets
  /\ ses = ZeroSession
  /\ command = Empty
  /\ loaded = <<>>
  /\ attempt = 0
  /\ pending = <<>>
  /\ eof = FALSE
  /\ nRead = 0
  /\ got = "none"
  /\ calls = <<>>
  /\ out = <<>>
  /\ nCalls = [f \in CallFns |-> 0]
  /\ nOut = [k \in OutKinds |-> 0]
  /\ checked = <<>>
  /\ ret = "running"

Return(err) == pc' = "Done" /\ ret' = err

\* ------------------------------------------------------------ app.Action

\* app.Action going on in interactive mode after an error of NewSession.
ActionProceedsInteractive ==
  /\ pc = "Action"
  /\ \E ld \in ConfigLoads :
       LET r == NewSession(flags, ld) IN
       /\ ses' = r.ses
       /\ loaded' = IF r.loaded THEN <<ld>> ELSE <<>>
       /\ command' = flags.c
       /\ Does(IF r.loaded
               THEN <<Call("config", "NewConfig", Empty, Empty, Empty, Empty, ld.err)>>
               ELSE <<>>, <<>>)
       /\ IF r.err # "nil" /\ command' # Empty THEN Return(r.err)
          ELSE /\ pc' = IF command' = Empty THEN "Interactive" ELSE "Single"
               /\ ret' = ret
  /\ NoRead
  /\ UNCHANGED <<flags, attempt, checked>>

\* app.Action up to the choice of mode: NewSession, its error, the command.
Action ==
  /\ pc = "Action"
  /\ \E ld \in ConfigLoads :
       LET r == NewSession(flags, ld) IN
       /\ ses' = r.ses
       /\ loaded' = IF r.loaded THEN <<ld>> ELSE <<>>
       /\ command' = IF r.err # "nil" THEN command ELSE flags.c
       /\ Does(IF r.loaded
               THEN <<Call("config", "NewConfig", Empty, Empty, Empty, Empty, ld.err)>>
               ELSE <<>>, <<>>)
       /\ IF r.err # "nil" THEN Return(r.err)
          ELSE /\ pc' = IF command' = Empty THEN "Interactive" ELSE "Single"
               /\ ret' = ret
  /\ NoRead
  /\ UNCHANGED <<flags, attempt, checked>>

\* Single mode without the password check of lines 174-176.
SingleCommandNoPasswordCheck ==
  /\ pc = "Single"
  /\ IF ses.Address = Empty THEN Return("ErrEmptyAddress") /\ Does(<<>>, <<>>)
     ELSE \E result \in Results, cerr \in BOOLEAN, lerr \in LogErrs(ses.Log) :
            LET r == Execute(ses, command, result, cerr, lerr) IN
            /\ Does(r.calls, r.out)
            /\ Return(r.err)
  /\ NoRead
  /\ UNCHANGED <<flags, ses, command, loaded, attempt, checked>>

\* Single mode with the two checks in the other order.
SingleCommandPasswordFirst ==
  /\ pc = "Single"
  /\ IF ses.Password = Empty THEN Return("ErrEmptyPassword") /\ Does(<<>>, <<>>)
     ELSE IF ses.Address = Empty THEN Return("ErrEmptyAddress") /\ Does(<<>>, <<>>)
     ELSE \E result \in Results, cerr \in BOOLEAN, lerr \in LogErrs(ses.Log) :
            LET r == Execute(ses, command, result, cerr, lerr) IN
            /\ Does(r.calls, r.out)
            /\ Return(r.err)
  /\ NoRead
  /\ UNCHANGED <<flags, ses, command, loaded, attempt, checked>>

\* app.Action in single mode: the address and password checks, then Execute.
SingleCommand ==
  /\ pc = "Single"
  /\ IF ses.Address = Empty THEN Return("ErrEmptyAddress") /\ Does(<<>>, <<>>)
     ELSE IF ses.Password = Empty THEN Return("ErrEmptyPassword") /\ Does(<<>>, <<>>)
     ELSE \E result \in Results, cerr \in BOOLEAN, lerr \in LogErrs(ses.Log) :
            LET r == Execute(ses, command, result, cerr, lerr) IN
            /\ Does(r.calls, r.out)
            /\ Return(r.err)
  /\ NoRead
  /\ UNCHANGED <<flags, ses, command, loaded, attempt, checked>>

\* ----------------------------------------------------------- Interactive

\* Interactive, lines 221-224: prompt for the address if it is empty.
AwaitAddress ==
  /\ pc = "Interactive"
  /\ IF ses.Address = Empty
     THEN \E rd \in Reads :
            LET r == Fscanln(rd, ses.Address) IN
            /\ ses' = [ses EXCEPT !.Address = r.val]
            /\ Consume(rd, r.rest)
            /\ Does(<<>>, <<Wrote("PromptAddress", Empty)>>)
     ELSE Does(<<>>, <<>>) /\ NoRead /\ UNCHANGED ses
  /\ pc' = "AwaitPassword"
  /\ UNCHANGED <<flags, command, loaded, attempt, ret, checked>>

\* Interactive, lines 226-229: prompt for the password if it is empty.
AwaitPassword ==
  /\ pc = "AwaitPassword"
  /\ IF ses.Password = Empty
     THEN \E rd \in Reads :
            LET r == Fscanln(rd, ses.Password) IN
            /\ ses' = [ses EXCEPT !.Password = r.val]
            /\ Consume(rd, r.rest)
            /\ Does(<<>>, <<Wrote("PromptPassword", Empty)>>)
     ELSE Does(<<>>, <<>>) /\ NoRead /\ UNCHANGED ses
  /\ pc' = "Loop"
  /\ UNCHANGED <<flags, command, loaded, attempt, ret, checked>>

\* Top of the Loop: prompt for the protocol type if it is empty.
PromptType ==
  /\ pc = "Loop"
  /\ IF ses.Type = Empty
     THEN \E rd \in Reads :
            LET r == Fscanln(rd, ses.Type) IN
            /\ ses' = [ses EXCEPT !.Type = r.val]
            /\ Consume(rd, r.rest)
            /\ Does(<<>>, <<Wrote("PromptType", Empty)>>)
     ELSE Does(<<>>, <<>>) /\ NoRead /\ UNCHANGED ses
  /\ pc' = "Switch"
  /\ UNCHANGED <<flags, command, loaded, attempt, ret, checked>>

\* case config.ProtocolTELNET: the telnet client runs the rest of the session.
SwitchTelnet ==
  /\ pc = "Switch"
  /\ ses.Type = ProtocolTELNET
  /\ \E err \in BOOLEAN :
       /\ Does(<<Call("telnet", "Interactive", ses.Address, ses.Password, Empty, Empty, err)>>,
               <<>>)
       /\ Return(IF err THEN "ErrTelnet" ELSE "nil")
  /\ NoRead
  /\ UNCHANGED <<flags, ses, command, loaded, attempt, checked>>

IsCheckedType(type) == type \in {Empty, ProtocolRCON, ProtocolWebRCON}

\* The credential check tried again when it fails.
SwitchCheckRetries ==
  /\ pc = "Switch"
  /\ IsCheckedType(ses.Type)
  /\ nCalls["CheckCredentials"] < MaxChecks
  /\ \E err \in BOOLEAN :
       /\ Does(<<CheckCredentials(ses, err)>>,
               IF err THEN <<>> ELSE <<Wrote("Banner", ses.Address)>>)
       /\ IF err THEN pc' = "Loop" /\ ret' = ret /\ checked' = checked
          ELSE /\ pc' = "Scan"
               /\ ret' = ret
               /\ checked' = <<[ses |-> ses, call |-> CheckCredentials(ses, err)]>>
  /\ NoRead
  /\ UNCHANGED <<flags, ses, command, loaded, attempt>>

\* The command loop entered whatever the credential check returns.
SwitchCheckIgnoresError ==
  /\ pc = "Switch"
  /\ IsCheckedType(ses.Type)
  /\ nCalls["CheckCredentials"] < MaxChecks
  /\ \E err \in BOOLEAN :
       /\ Does(<<CheckCredentials(ses, err)>>, <<Wrote("Banner", ses.Address)>>)
       /\ pc' = "Scan"
       /\ ret' = ret
       /\ checked' = IF err THEN checked
                     ELSE <<[ses |-> ses, call |-> CheckCredentials(ses, err)]>>
  /\ NoRead
  /\ UNCHANGED <<flags, ses, command, loaded, attempt>>

\* case "", rcon, web: the credential check, then the banner.
SwitchCheck ==
  /\ pc = "Switch"
  /\ IsCheckedType(ses.Type)
  /\ nCalls["CheckCredentials"] < MaxChecks
  /\ \E err \in BOOLEAN :
       /\ Does(<<CheckCredentials(ses, err)>>,
               IF err THEN <<>> ELSE <<Wrote("Banner", ses.Address)>>)
       /\ IF err THEN Return("ErrAuth") /\ checked' = checked
          ELSE /\ pc' = "Scan"
               /\ ret' = ret
               /\ checked' = <<[ses |-> ses, call |-> CheckCredentials(ses, err)]>>
  /\ NoRead
  /\ UNCHANGED <<flags, ses, command, loaded, attempt>>

\* The default case with `attempt > AttemptsLimit` for the limit test.
SwitchDefaultOneMore ==
  /\ pc = "Switch"
  /\ ses.Type # ProtocolTELNET
  /\ ~IsCheckedType(ses.Type)
  /\ attempt' = attempt + 1
  /\ ses' = [ses EXCEPT !.Type = Empty]
  /\ Does(<<>>, <<Wrote("Unsupported", Empty)>>)
  /\ IF attempt' > AttemptsLimit THEN Return("ErrToManyFails")
     ELSE pc' = "Loop" /\ ret' = ret
  /\ NoRead
  /\ UNCHANGED <<flags, command, loaded, checked>>

\* default: an unsupported protocol type is one failed attempt.
SwitchDefault ==
  /\ pc = "Switch"
  /\ ses.Type # ProtocolTELNET
  /\ ~IsCheckedType(ses.Type)
  /\ attempt' = attempt + 1
  /\ ses' = [ses EXCEPT !.Type = Empty]
  /\ Does(<<>>, <<Wrote("Unsupported", Empty)>>)
  /\ IF attempt' >= AttemptsLimit THEN Return("ErrToManyFails")
     ELSE pc' = "Loop" /\ ret' = ret
  /\ NoRead
  /\ UNCHANGED <<flags, command, loaded, checked>>

\* scanner.Scan() returns false: the inner for ends, the switch ends, and
\* the enclosing for of Loop starts its next iteration.
ScanEOF ==
  /\ pc = "Scan"
  /\ \E rd \in Reads :
       /\ rd.eof
       /\ Consume(rd, <<>>)
  /\ Does(<<>>, <<>>)
  /\ pc' = "Loop"
  /\ UNCHANGED <<flags, ses, command, loaded, attempt, ret, checked>>

\* scanner.Scan() returns false because the next line does not fit the
\* scanner's buffer (bufio.ErrTooLong, which Interactive does not look at):
\* the scanner stops, the rest of that line is still unread in r, and the
\* enclosing for of Loop starts its next iteration.
ScanTooLong ==
  /\ pc = "Scan"
  /\ pending = <<>> /\ ~eof /\ nRead < MaxLines
  /\ \E rest \in Lines : pending' = <<rest>>
  /\ nRead' = nRead + 1
  /\ eof' = eof
  /\ got' = "toolong"
  /\ Does(<<>>, <<>>)
  /\ pc' = "Loop"
  /\ UNCHANGED <<flags, ses, command, loaded, attempt, ret, checked>>

\* The loop body without `if command != ""`: the empty line goes to Execute.
ScanEmptyDispatched ==
  /\ pc = "Scan"
  /\ \E rd \in Reads :
       /\ ~rd.eof
       /\ rd.text = Empty
       /\ command' = rd.text
       /\ Consume(rd, <<>>)
       /\ \E result \in Results, cerr \in BOOLEAN, lerr \in LogErrs(ses.Log) :
            LET r == Execute(ses, rd.text, result, cerr, lerr) IN
            IF r.err # "nil" THEN Return(r.err) /\ Does(r.calls, r.out)
            ELSE /\ Does(r.calls, Append(r.out, Wrote("Prompt", Empty)))
                 /\ pc' = pc
                 /\ ret' = ret
  /\ UNCHANGED <<flags, ses, loaded, attempt, checked>>

\* An empty line: only the prompt.
ScanEmpty ==
  /\ pc = "Scan"
  /\ \E rd \in Reads :
       /\ ~rd.eof
       /\ rd.text = Empty
       /\ command' = rd.text
       /\ Consume(rd, <<>>)
  /\ Does(<<>>, <<Wrote("Prompt", Empty)>>)
  /\ UNCHANGED <<pc, flags, ses, loaded, attempt, ret, checked>>

\* The loop body with the quit test after the call of Execute.
ScanQuitDispatched ==
  /\ pc = "Scan"
  /\ \E rd \in Reads :
       /\ ~rd.eof
       /\ rd.text # Empty
       /\ rd.text = CommandQuit
       /\ command' = rd.text
       /\ Consume(rd, <<>>)
       /\ \E result \in Results, cerr \in BOOLEAN, lerr \in LogErrs(ses.Log) :
            LET r == Execute(ses, rd.text, result, cerr, lerr) IN
            /\ Does(r.calls, r.out)
            /\ Return(r.err)
  /\ UNCHANGED <<flags, ses, loaded, attempt, checked>>

\* The quit command: break Loop, return nil.
ScanQuit ==
  /\ pc = "Scan"
  /\ \E rd \in Reads :
       /\ ~rd.eof
       /\ rd.text # Empty
       /\ rd.text = CommandQuit
       /\ command' = rd.text
       /\ Consume(rd, <<>>)
  /\ Does(<<>>, <<>>)
  /\ Return("nil")
  /\ UNCHANGED <<flags, ses, loaded, attempt, checked>>

\* The loop body without `return err` after Execute.
ScanCommandContinues ==
  /\ pc = "Scan"
  /\ \E rd \in Reads :
       /\ ~rd.eof
       /\ rd.text # Empty
       /\ rd.text # CommandQuit
       /\ command' = rd.text
       /\ Consume(rd, <<>>)
       /\ \E result \in Results, cerr \in BOOLEAN, lerr \in LogErrs(ses.Log) :
            LET r == Execute(ses, rd.text, result, cerr, lerr) IN
            /\ Does(r.calls, Append(r.out, Wrote("Prompt", Empty)))
            /\ pc' = pc
            /\ ret' = ret
  /\ UNCHANGED <<flags, ses, loaded, attempt, checked>>

\* Any other line is a command for Execute; its error ends Interactive.
ScanCommand ==
  /\ pc = "Scan"
  /\ \E rd \in Reads :
       /\ ~rd.eof
       /\ rd.text # Empty
       /\ rd.text # CommandQuit
       /\ command' = rd.text
       /\ Consume(rd, <<>>)
       /\ \E result \in Results, cerr \in BOOLEAN, lerr \in LogErrs(ses.Log) :
            LET r == Execute(ses, rd.text, result, cerr, lerr) IN
            IF r.err # "nil" THEN Return(r.err) /\ Does(r.calls, r.out)
            ELSE /\ Does(r.calls, Append(r.out, Wrote("Prompt", Empty)))
                 /\ pc' = pc
                 /\ ret' = ret
  /\ UNCHANGED <<flags, ses, loaded, attempt, checked>>

Next ==
  \/ Action
  \/ SingleCommand
  \/ AwaitAddress
  \/ AwaitPassword
  \/ PromptType
  \/ SwitchTelnet
  \/ SwitchCheck
  \/ SwitchDefault
  \/ ScanEOF
  \/ ScanTooLong
  \/ ScanEmpty
  \/ ScanQuit
  \/ ScanCommand

Spec == Init /\ [][Next]_vars

\* ------------------------------------------------- Execute, called directly

\* Execute is exported: a caller hands it any session and any command.
InitExecute ==
  /\ pc = "Execute"
  /\ flags = [a |-> Empty, p |-> Empty, t |-> Empty, l |-> Empty, c |-> Empty, e |-> ""]
  /\ ses \in SessionSet
  /\ command \in Commands
  /\ loaded = <<>>
  /\ attempt = 0
  /\ pending = <<>>
  /\ eof = FALSE
  /\ nRead = 0
  /\ got = "none"
  /\ calls = <<>>
  /\ out = <<>>
  /\ nCalls = [f \in CallFns |-> 0]
  /\ nOut = [k \in OutKinds |-> 0]
  /\ checked = <<>>
  /\ ret = "running"

ExecuteCall ==
  /\ pc = "Execute"
  /\ \E result \in Results, cerr \in BOOLEAN, lerr \in LogErrs(ses.Log) :
       LET r == Execute(ses, command, result, cerr, lerr) IN
       /\ Does(r.calls, r.out)
       /\ Return(r.err)
  /\ NoRead
  /\ UNCHANGED <<flags, ses, command, loaded, attempt, checked>>

NextExecute == ExecuteCall

SpecExecute == InitExecute /\ [][NextExecute]_vars

\* ---------------------------------------- CheckCredentials, called directly

\* CheckCredentials is exported: a caller hands it any session.
InitCheckCredentials ==
  /\ pc = "CheckCredentials"
  /\ flags = [a |-> Empty, p |-> Empty, t |-> Empty, l |-> Empty, c |-> Empty, e |-> ""]
  /\ ses \in SessionSet
  /\ command = Empty
  /\ loaded = <<>>
  /\ attempt = 0
  /\ pending = <<>>
  /\ eof = FALSE
  /\ nRead = 0
  /\ got = "none"
  /\ calls = <<>>
  /\ out = <<>>
  /\ nCalls = [f \in CallFns |-> 0]
  /\ nOut = [k \in OutKinds |-> 0]
  /\ checked = <<>>
  /\ ret = "running"

CheckCredentialsCall ==
  /\ pc = "CheckCredentials"
  /\ \E err \in BOOLEAN :
       /\ Does(<<CheckCredentials(ses, err)>>, <<>>)
       /\ Return(IF err THEN "ErrAuth" ELSE "nil")
  /\ NoRead
  /\ UNCHANGED <<flags, ses, command, loaded, attempt, checked>>

\* The package as its callers see it: the CLI action, Execute and
\* CheckCredentials.
InitPackage == Init \/ InitExecute \/ InitCheckCredentials

NextPackage ==
  \/ Next
  \/ ExecuteCall
  \/ CheckCredentialsCall

SpecPackage == InitPackage /\ [][NextPackage]_vars

\* ================================================================ claims

ClientCalls == {i \in DOMAIN calls : calls[i].fn \in {"Execute", "CheckCredentials"}}

\* C1: once the command loop has been entered (the banner is out) and the
\* scanner has met the end of the input stream without reading ":q", the
\* loop has ended and Interactive has returned no error.
C1_EndOfStreamEndsInteractive ==
  (nOut["Banner"] > 0 /\ eof /\ pc # "Scan") => (pc = "Done" /\ ret = "nil")

\* C2, as stated: no protocol client's Execute and no CheckCredentials is
\* ever called with an empty address or an empty password.
C2_NeverDispatchedEmpty ==
  \A i \in ClientCalls : calls[i].addr # Empty /\ calls[i].pwd # Empty

\* C2, amended: in single-command mode no protocol client is called with an
\* empty address or password; Interactive does not check them, and calls a
\* client with an empty address (password) only after it has prompted once
\* for the address (password) and the read has left it empty.
C2_DispatchedEmptyOnlyAfterPrompt ==
  \A i \in ClientCalls :
    /\ calls[i].addr = ses.Address /\ calls[i].pwd = ses.Password
    /\ flags.c # Empty => (calls[i].addr # Empty /\ calls[i].pwd # Empty)
    /\ calls[i].addr = Empty => nOut["PromptAddress"] = 1
    /\ calls[i].pwd = Empty => nOut["PromptPassword"] = 1

C2_Witness ==
  \E i \in ClientCalls :
    /\ calls[i].fn = "CheckCredentials"
    /\ calls[i].addr = Empty
    /\ calls[i].pwd # Empty
    /\ nOut["PromptAddress"] = 1

ValidType(type) ==
  type \in {Empty, <<"r", "c", "o", "n">>, <<"w", "e", "b">>, <<"t", "e", "l", "n", "e", "t">>}

\* C3: Interactive returns ErrToManyFails exactly when the third unsupported
\* protocol type has been rejected, never earlier; it is then finished, and
\* that step calls no collaborator; after two rejections a valid type still
\* leads to the credential check or to the telnet client.
C3_TooManyFailsAfterThree ==
  /\ [](/\ nOut["Unsupported"] <= 3
        /\ (ret = "ErrToManyFails") <=> (nOut["Unsupported"] = 3)
        /\ (ret = "ErrToManyFails") => (pc = "Done" /\ calls = <<>>))
  /\ [][pc # "Done"]_vars
  /\ [][(pc = "Switch" /\ nOut["Unsupported"] = 2 /\ ValidType(ses.Type))
          => /\ calls' # <<>>
             /\ calls'[1].fn \in {"CheckCredentials", "Interactive"}
             /\ ret' # "ErrToManyFails"]_vars

\* Three unsupported types in a row: no credential check, no command loop.
C3_Witness ==
  /\ ret = "ErrToManyFails"
  /\ nOut["PromptType"] = 3
  /\ nCalls["CheckCredentials"] = 0
  /\ nCalls["Execute"] = 0
  /\ nOut["Banner"] = 0

\* C4: in the command loop the line ":q" ends Interactive with no error and
\* without a call, and in interactive mode no protocol client's Execute is
\* ever called with ":q" as the command.
C4_QuitEndsWithoutDispatch ==
  /\ [][(pc = "Scan" /\ got' = "line" /\ command' = <<":", "q">>)
          => (pc' = "Done" /\ ret' = "nil" /\ calls' = <<>>)]_vars
  /\ [](flags.c = Empty =>
          \A i \in DOMAIN calls : calls[i].fn = "Execute" => calls[i].arg # <<":", "q">>)

C4_Witness ==
  /\ pc = "Done"
  /\ got = "line"
  /\ command = <<":", "q">>
  /\ ret = "nil"
  /\ nCalls["Execute"] > 0

\* C5: in the command loop an empty line makes no call at all, writes the
\* prompt again and leaves Interactive reading in the loop.
C5_EmptyLineNotDispatched ==
  [][(pc = "Scan" /\ got' = "line" /\ command' = Empty)
       => /\ calls' = <<>>
          /\ nCalls' = nCalls
          /\ out' = <<Wrote("Prompt", Empty)>>
          /\ pc' = "Scan"
          /\ ret' = "running"]_vars

C5_Witness ==
  /\ pc = "Scan"
  /\ got = "line"
  /\ command = Empty
  /\ out = <<Wrote("Prompt", Empty)>>
  /\ nCalls["Execute"] > 0

NoCallsYet == \A f \in CallFns : nCalls[f] = 0

\* C6: Execute with an empty command returns ErrCommandEmpty whatever the
\* session, calls no protocol client and no log sink, and writes nothing;
\* with a command it never returns ErrCommandEmpty.
C6_EmptyCommandRejected ==
  pc = "Done" =>
    /\ command = Empty => (ret = "ErrCommandEmpty" /\ calls = <<>> /\ out = <<>> /\ NoCallsYet)
    /\ command # Empty => ret # "ErrCommandEmpty"

C6_Witness ==
  /\ pc = "Done"
  /\ command = Empty
  /\ ret = "ErrCommandEmpty"
  /\ ses.Type = <<"w", "e", "b">>
  /\ ses.Address # Empty /\ ses.Password # Empty /\ ses.Log # Empty

FlagSession == [Address |-> flags.a, Password |-> flags.p, Type |-> flags.t, Log |-> flags.l]

Resolved == pc \in {"Interactive", "Single"}

\* C7: when the flags give both the address and the password, config.NewConfig
\* is never called, no load error is returned, and the session NewSession
\* returns holds exactly the flag values.
C7_FlagsSkipConfig ==
  (flags.a # Empty /\ flags.p # Empty) =>
    /\ nCalls["NewConfig"] = 0
    /\ loaded = <<>>
    /\ ret # "ErrConfig"
    /\ Resolved => ses = FlagSession

C7_Witness ==
  /\ Resolved
  /\ flags.a # Empty /\ flags.p # Empty
  /\ flags.t = Empty /\ flags.l = Empty /\ flags.e = "prod"
  /\ ses = FlagSession

\* C8: when NewSession has loaded the config, each of the four fields is the
\* flag value if that is not empty, and else the value of the environment
\* block named by -e, or by "default" when -e is empty.
C8_FieldsResolvedIndependently ==
  (Resolved /\ loaded # <<>>) =>
    LET blk == loaded[1].cfg[IF flags.e = "" THEN "default" ELSE flags.e] IN
    /\ ~loaded[1].err
    /\ ses.Address  = (IF flags.a # Empty THEN flags.a ELSE blk.Address)
    /\ ses.Password = (IF flags.p # Empty THEN flags.p ELSE blk.Password)
    /\ ses.Type     = (IF flags.t # Empty THEN flags.t ELSE blk.Type)
    /\ ses.Log      = (IF flags.l # Empty THEN flags.l ELSE blk.Log)

\* The address comes from the flag, the log path from the named environment.
C8_Witness ==
  /\ Resolved
  /\ loaded # <<>>
  /\ flags.e = "prod"
  /\ flags.a # Empty /\ ses.Address = flags.a
  /\ flags.l = Empty /\ ses.Log = <<"L">>
  /\ flags.t # Empty /\ ses.Type = flags.t

NoInputRead ==
  /\ nRead = 0 /\ ~eof /\ pending = <<>> /\ got = "none"
  /\ \A k \in OutKinds : nOut[k] = 0

NoClientCalled ==
  /\ \A f \in CallFns \ {"NewConfig"} : nCalls[f] = 0
  /\ calls = <<>>

\* C9: in single-command mode an empty address ends the action with
\* ErrEmptyAddress, else an empty password with ErrEmptyPassword, both with
\* no call of a protocol client; else the protocol client's Execute is called
\* exactly once, with the session and the command, and the action returns
\* Execute's error as it is; the input stream is never read.
C9_SingleCommandMode ==
  (pc = "Done" /\ flags.c # Empty /\ ret # "ErrConfig") =>
    /\ NoInputRead
    /\ IF ses.Address = Empty THEN ret = "ErrEmptyAddress" /\ NoClientCalled
       ELSE IF ses.Password = Empty THEN ret = "ErrEmptyPassword" /\ NoClientCalled
       ELSE /\ nCalls["Execute"] = 1
            /\ nCalls["CheckCredentials"] = 0 /\ nCalls["Interactive"] = 0
            /\ calls[1].fn = "Execute"
            /\ calls[1].addr = ses.Address /\ calls[1].pwd = ses.Password
            /\ calls[1].arg = flags.c
            /\ IF nCalls["Write"] = 0 THEN ret = "ErrClient"
               ELSE nCalls["Write"] = 1 /\ ret \in {"nil", "ErrWriteLog"}

C9_Witness ==
  /\ pc = "Done"
  /\ flags.c # Empty
  /\ ses.Address # Empty /\ ses.Password # Empty
  /\ nCalls["Execute"] = 1
  /\ ret = "ErrClient"

\* C10: Execute with a command calls exactly one protocol client: the telnet
\* client for type telnet, the websocket client for type web, and the rcon
\* client for every other type, the empty and the unknown ones included.
C10_ExecuteRouting ==
  (pc = "Done" /\ command # Empty) =>
    /\ nCalls["Execute"] = 1
    /\ nCalls["CheckCredentials"] = 0 /\ nCalls["Interactive"] = 0
    /\ calls[1].fn = "Execute"
    /\ calls[1].pkg = (IF ses.Type = <<"t", "e", "l", "n", "e", "t">> THEN "telnet"
                       ELSE IF ses.Type = <<"w", "e", "b">> THEN "websocket"
                       ELSE "rcon")
    /\ \A i \in DOMAIN calls : i > 1 => calls[i].pkg = "logger"

\* An unknown protocol type goes to the rcon client.
C10_Witness ==
  /\ pc = "Done"
  /\ command # Empty
  /\ ses.Type = <<"x">>
  /\ calls # <<>> /\ calls[1].pkg = "rcon"

\* C11: CheckCredentials asks the websocket client exactly when the type is
\* web and the binary-RCON client for every other type; and in Interactive
\* every command Execute dispatches goes to the client that answered the
\* latest successful credential check.
C11_CheckRoutingMatchesExecute ==
  /\ \A i \in DOMAIN calls : calls[i].fn = "CheckCredentials" =>
        /\ calls[i].pkg \in {"websocket", "rcon"}
        /\ calls[i].pkg = "websocket" <=> ses.Type = ProtocolWebRCON
  /\ \A i \in DOMAIN calls : calls[i].fn = "Execute" /\ checked # <<>> =>
        calls[i].pkg = checked[1].call.pkg

C11_Witness ==
  /\ checked # <<>>
  /\ checked[1].call.pkg = "websocket"
  /\ flags.t = Empty
  /\ calls # <<>>
  /\ calls[1].fn = "Execute"
  /\ calls[1].pkg = "websocket"

\* C12: whenever Execute has sent a command to a protocol client and the
\* session's log path is not empty, the same step calls logger.Write exactly
\* once, with that path, the address, the command and the trimmed result,
\* whether the client call succeeded or failed.
C12_LoggedOncePerDispatch ==
  \A i \in DOMAIN calls : calls[i].fn = "Execute" /\ ses.Log # Empty =>
    /\ Cardinality({j \in DOMAIN calls : calls[j].fn = "Write"}) = 1
    /\ \E j \in DOMAIN calls :
         /\ calls[j].pkg = "logger" /\ calls[j].fn = "Write"
         /\ calls[j].pwd = ses.Log
         /\ calls[j].addr = ses.Address
         /\ calls[j].arg = calls[i].arg
         /\ calls[j].res = TrimSpace(calls[i].res)

\* C13: when the protocol client returns a result text, Execute writes that
\* text, trimmed of surrounding white space, to w exactly once, also when the
\* client returned an error with it; and the result handed to logger.Write
\* is the very value written ("  OK\n" gives "OK" in both).
C13_TrimmedResultWritten ==
  \A i \in DOMAIN calls : calls[i].fn = "Execute" /\ calls[i].res # Empty =>
    /\ out # <<>>
    /\ out[1] = Wrote("Result", TrimSpace(calls[i].res))
    /\ Cardinality({k \in DOMAIN out : out[k].kind = "Result"}) = 1
    /\ calls[i].res = <<" ", " ", "O", "K", "\n">> => out[1].text = <<"O", "K">>
    /\ \A j \in DOMAIN calls : calls[j].fn = "Write" => calls[j].res = out[1].text

C13_Witness ==
  /\ Len(calls) = 1
  /\ calls[1].fn = "Execute"
  /\ calls[1].err
  /\ calls[1].res = <<" ", " ", "O", "K", "\n">>
  /\ out = <<Wrote("Result", <<"O", "K">>)>>
  /\ ret = "ErrClient"

\* C14: a CheckCredentials call of Interactive that returns an error ends
\* Interactive in that very step with that error: the step writes no banner
\* and reads nothing, nothing happens afterwards (no retry, no read, no
\* command), and when it was the session's first check the banner was never
\* written and no command was ever dispatched.
C14_CheckFailureIsFatal ==
  /\ [](\A i \in DOMAIN calls : calls[i].fn = "CheckCredentials" /\ calls[i].err =>
          /\ pc = "Done"
          /\ ret = "ErrAuth"
          /\ Len(calls) = 1
          /\ out = <<>>
          /\ got = "none"
          /\ nCalls["CheckCredentials"] = 1 =>
               nOut["Banner"] = 0 /\ nCalls["Execute"] = 0)
  /\ [][pc = "Done" => FALSE]_vars

C14_Witness ==
  /\ pc = "Done"
  /\ ret = "ErrAuth"
  /\ calls # <<>>
  /\ calls[1].fn = "CheckCredentials"
  /\ calls[1].err
  /\ nCalls["CheckCredentials"] = 1
  /\ nOut["Banner"] = 0
  /\ nCalls["Execute"] = 0
  /\ ~eof

\* C15: when the switch of Interactive finds the type telnet, that step calls
\* telnet.Interactive once, with the session's address and password, and
\* Interactive returns what it returns; it is called at most once, and in a
\* session where it is called neither CheckCredentials nor Execute is ever
\* called.
C15_TelnetDelegatesOnly ==
  /\ [][(pc = "Switch" /\ ses.Type = ProtocolTELNET)
          => /\ Len(calls') = 1
             /\ calls'[1].pkg = "telnet" /\ calls'[1].fn = "Interactive"
             /\ calls'[1].addr = ses.Address /\ calls'[1].pwd = ses.Password
             /\ pc' = "Done"
             /\ ret' = IF calls'[1].err THEN "ErrTelnet" ELSE "nil"]_vars
  /\ [](nCalls["Interactive"] <= 1)
  /\ [](nCalls["Interactive"] = 1 =>
          nCalls["CheckCredentials"] = 0 /\ nCalls["Execute"] = 0)

\* C16: in the command loop, the step whose Execute returns an error (of the
\* protocol client or of logger.Write) ends Interactive with that error: it
\* dispatches the command once, writes no further prompt, and no step
\* follows it (no read, no dispatch, no retry).
C16_FirstExecuteErrorEnds ==
  /\ [][(pc = "Scan" /\ \E i \in DOMAIN calls' : calls'[i].err)
          => /\ pc' = "Done"
             /\ calls'[1].fn = "Execute"
             /\ ret' = IF calls'[1].err THEN "ErrClient" ELSE "ErrWriteLog"
             /\ nCalls'["Execute"] = nCalls["Execute"] + 1
             /\ \A k \in DOMAIN out' : out'[k].kind # "Prompt"]_vars
  /\ [][ret = "running"]_vars
  /\ [](flags.c = Empty /\ ret \in {"ErrClient", "ErrWriteLog"} => pc = "Done")

\* A second command fails after a first one went through, with input left.
C16_Witness ==
  /\ flags.c = Empty
  /\ pc = "Done"
  /\ ret = "ErrClient"
  /\ nCalls["Execute"] = 2
  /\ calls[1].fn = "Execute" /\ calls[1].err
  /\ ~eof
  /\ nRead < MaxLines

\* C17: when NewSession has consulted the configuration (the address or the
\* password flag is empty) and the load failed, it returns the load error
\* together with a session that holds exactly the flag values.
C17_LoadErrorKeepsFlagSession ==
  (loaded # <<>> /\ loaded[1].err) =>
    /\ flags.a = Empty \/ flags.p = Empty
    /\ ret = "ErrConfig"
    /\ ses = FlagSession
    /\ NewSession(flags, loaded[1]) = [ses |-> FlagSession, err |-> "ErrConfig", loaded |-> TRUE]

C17_Witness ==
  /\ loaded # <<>>
  /\ loaded[1].err
  /\ ret = "ErrConfig"
  /\ flags.a # Empty /\ flags.t # Empty /\ flags.l # Empty
  /\ ses = [Address |-> HostA, Password |-> Empty, Type |-> flags.t, Log |-> LogA]

\* C18: when NewSession returns an error the action returns that error and
\* does nothing else, with or without a command: it writes no prompt, reads
\* no input and calls neither Interactive's collaborators nor Execute.
C18_ActionAbortsOnSessionError ==
  /\ [][(pc = "Action" /\ loaded' # <<>> /\ loaded'[1].err)
          => pc' = "Done" /\ ret' = "ErrConfig"]_vars
  /\ [](ret = "ErrConfig" =>
          /\ pc = "Done"
          /\ NoInputRead
          /\ out = <<>>
          /\ \A f \in CallFns \ {"NewConfig"} : nCalls[f] = 0
          /\ nCalls["NewConfig"] = 1
          /\ Len(calls) = 1 /\ calls[1].fn = "NewConfig" /\ calls[1].err)
  /\ [][ret # "ErrConfig"]_vars

\* Interactive mode (no command), load error.
C18_Witness ==
  /\ ret = "ErrConfig"
  /\ pc = "Done"
  /\ flags.c = Empty
  /\ flags.p = Empty
  /\ nCalls["CheckCredentials"] = 0
  /\ nOut["PromptPassword"] = 0

\* C19: in interactive mode every command Execute dispatches comes after a
\* CheckCredentials call that returned success, made with the very address,
\* password and protocol type the command is dispatched with; in the command
\* loop the session is the checked one and Interactive does not change it.
C19_ExecuteOnlyAfterCheck ==
  /\ [](flags.c = Empty =>
          \A i \in DOMAIN calls : calls[i].fn = "Execute" =>
            /\ checked # <<>>
            /\ nCalls["CheckCredentials"] > 0
            /\ ~checked[1].call.err
            /\ checked[1].ses.Type # ProtocolTELNET
            /\ calls[i].addr = checked[1].call.addr
            /\ calls[i].pwd = checked[1].call.pwd
            /\ calls[i].addr = checked[1].ses.Address
            /\ calls[i].pwd = checked[1].ses.Password
            /\ ExecuteClient(checked[1].ses.Type) = calls[i].pkg
            /\ ses = checked[1].ses)
  /\ [](pc = "Scan" => checked # <<>> /\ checked[1].ses = ses)
  /\ [][pc = "Scan" /\ pc' \in {"Scan", "Done"} => ses' = ses /\ checked' = checked]_vars

\* A command dispatched after the type was asked again and checked again.
C19_Witness ==
  /\ flags.c = Empty
  /\ flags.t = Empty
  /\ nCalls["CheckCredentials"] = 2
  /\ nOut["PromptType"] = 2
  /\ checked # <<>>
  /\ checked[1].ses.Type = ProtocolWebRCON
  /\ calls # <<>>
  /\ calls[1].fn = "Execute"
  /\ calls[1].pkg = "websocket"

\* C20: in the command loop, when the protocol client's call succeeded, the
\* result has been written and logger.Write then fails, Execute returns the
\* write-log error and Interactive ends with it in that step; no command
\* follows.
C20_LogFailureEndsSession ==
  /\ [][(pc = "Scan" /\ \E j \in DOMAIN calls' : calls'[j].fn = "Write" /\ calls'[j].err)
          => /\ pc' = "Done"
             /\ ret' = "ErrWriteLog"
             /\ Len(calls') = 2
             /\ calls'[1].fn = "Execute" /\ ~calls'[1].err
             /\ calls'[2].fn = "Write" /\ calls'[2].arg = command'
             /\ out' = IF calls'[1].res = Empty THEN <<>>
                       ELSE <<Wrote("Result", TrimSpace(calls'[1].res))>>
             /\ nCalls'["Execute"] = nCalls["Execute"] + 1]_vars
  /\ [](ret = "ErrWriteLog" => pc = "Done" /\ calls[2].err)
  /\ [][ret # "ErrWriteLog"]_vars

C20_Witness ==
  /\ flags.c = Empty
  /\ pc = "Done"
  /\ ret = "ErrWriteLog"
  /\ nCalls["CheckCredentials"] = 1
  /\ Len(calls) = 2
  /\ calls[2].fn = "Write" /\ calls[2].err
  /\ out = <<Wrote("Result", <<"O", "K">>)>>
  /\ ~eof
  /\ nRead < MaxLines

====
